---- MODULE Spec2Model ----
(***************************************************************************)
(* Map tile utilities: scripts/map_tiler.py, scripts/map_enhancer.py and   *)
(* scripts/batch_process.py.  Images are records of a mode, a size and a   *)
(* pixel array; the filesystem is a function from paths to images.         *)
(***************************************************************************)
EXTENDS Integers, Sequences, FiniteSets, TLC

VARIABLES
    fs,        \* the files on disk: path -> image
    split,     \* the last split_image call: its arguments and return value
    stitch,    \* the last stitch_images call: arguments, canvas, pastes, return value
    exit,      \* exit status of the last command-line run ("none" before any)
    fix,       \* the last fix_antarctica_color_mismatch call and its return value
    dir,       \* the tile directory of a batch: state of each tile file, unwritable outputs
    batch,     \* the last batch loop: cells visited, paths returned, exception raised
    cli        \* the last command line: script, argv and how the process ended

vars == <<fs, split, stitch, exit, fix, dir, batch, cli>>

(***************************** bounds ***************************************)
MaxW == 3          \* widest source image
MaxH == 3          \* highest source image
MaxGrid == 3       \* largest rows / cols argument
MaxPattern == 1    \* pixel patterns 0..MaxPattern of the source image
MaxFixW == 3       \* widest image given to the colour corrector
MaxFixH == 2       \* highest image given to the colour corrector
MaxBatchRows == 2  \* largest rows of a batch grid
MaxBatchCols == 2  \* largest cols of a batch grid
MaxArgs == 6       \* most arguments after the subcommand

(***************************** images ***************************************)
\* a return value of None; paths are <<base name, suffix, r, c>>
None == <<"None", "", 0, 0>>

Coords(w, h) == (0 .. w - 1) \X (0 .. h - 1)

Bands(mode) == IF mode = "RGBA" THEN 4 ELSE 3

\* the pixel of pattern pat at (x, y): every coordinate has its own colour
PatternPixel(mode, pat, x, y) ==
    [ch \in 1 .. Bands(mode) |-> (1 + 40 * x + 13 * y + 5 * ch + 20 * pat) % 256]

SourceImage(mode, w, h, pat) ==
    [mode |-> mode, w |-> w, h |-> h,
     px |-> [p \in Coords(w, h) |-> PatternPixel(mode, pat, p[1], p[2])]]

\* Image.crop((left, top, right, bottom)): the box is inside the image here
Crop(im, left, top, right, bottom) ==
    [mode |-> im.mode, w |-> right - left, h |-> bottom - top,
     px |-> [p \in Coords(right - left, bottom - top) |->
                im.px[<<p[1] + left, p[2] + top>>]]]

\* Image.new('RGB', (w, h)): a black canvas
NewRGB(w, h) ==
    [mode |-> "RGB", w |-> w, h |-> h,
     px |-> [p \in Coords(w, h) |-> <<0, 0, 0>>]]

\* what paste() stores of a source pixel in an RGB canvas: R, G, B, alpha dropped
ToRGB(pixel) == SubSeq(pixel, 1, 3)

\* paste() without its box argument: the image lands at (0, 0)
PasteAtOrigin(canvas, im, ox, oy) ==
    [canvas EXCEPT !.px =
        [p \in Coords(canvas.w, canvas.h) |->
            IF p[1] < im.w /\ p[2] < im.h THEN ToRGB(im.px[p]) ELSE canvas.px[p]]]

\* new_im.paste(im, (ox, oy)): the part of im inside the canvas replaces it
Paste(canvas, im, ox, oy) ==
    [canvas EXCEPT !.px =
        [p \in Coords(canvas.w, canvas.h) |->
            IF /\ ox <= p[1] /\ p[1] < ox + im.w
               /\ oy <= p[2] /\ p[2] < oy + im.h
            THEN ToRGB(im.px[<<p[1] - ox, p[2] - oy>>])
            ELSE canvas.px[p]]]

\* a save that accepts any image
SaveNeverFails(im) == FALSE

\* Image.save raises on an image with no pixels
SaveFails(im) == im.w = 0 \/ im.h = 0

(***************************** paths ****************************************)
SrcPath == <<"map", "", 0, 0>>
OutPath == <<"out", "", 0, 0>>

\* os.path.join(output_dir, f"{base_name}_tile_{r}_{c}.png")
TilePath(base, r, c) == <<base[1], "tile", r, c>>

(***************************** split_image **********************************)
\* the crop box without the remainder handling of the last row and column
CropBoxNoRemainder(w, h, rows, cols, r, c) ==
    LET tile_w == w \div cols
        tile_h == h \div rows
    IN  <<c * tile_w, r * tile_h, c * tile_w + tile_w, r * tile_h + tile_h>>

\* the crop box of cell (r, c): <<left, top, right, bottom>>
CropBox(w, h, rows, cols, r, c) ==
    LET tile_w == w \div cols
        tile_h == h \div rows
        left   == c * tile_w
        top    == r * tile_h
        right  == IF c = cols - 1 THEN w ELSE left + tile_w
        bottom == IF r = rows - 1 THEN h ELSE top + tile_h
    IN  <<left, top, right, bottom>>

TileOf(im, rows, cols, r, c) ==
    LET b == CropBox(im.w, im.h, rows, cols, r, c)
    IN  Crop(im, b[1], b[2], b[3], b[4])

\* row-major position of cell (r, c) in the loops
CellIndex(cols, r, c) == r * cols + c

Cells(rows, cols) == (0 .. rows - 1) \X (0 .. cols - 1)

\* the cells whose tile.save raises
BadCells(im, rows, cols) ==
    {rc \in Cells(rows, cols) : SaveFails(TileOf(im, rows, cols, rc[1], rc[2]))}

\* the cells saved before the first exception (all of them if none raises)
SavedCells(im, rows, cols) ==
    {rc \in Cells(rows, cols) :
        \A bad \in BadCells(im, rows, cols) :
            CellIndex(cols, rc[1], rc[2]) < CellIndex(cols, bad[1], bad[2])}

\* tile_paths as appended by the loops, in row-major order
RowMajorPaths(base, rows, cols) ==
    [i \in 1 .. rows * cols |-> TilePath(base, (i - 1) \div cols, (i - 1) % cols)]

SplitReturn(im, base, rows, cols) ==
    IF BadCells(im, rows, cols) = {} THEN RowMajorPaths(base, rows, cols) ELSE <<>>

FilesAfterSplit(files, im, base, rows, cols) ==
    LET saved == SavedCells(im, rows, cols)
        new   == {TilePath(base, rc[1], rc[2]) : rc \in saved}
    IN  [p \in DOMAIN files \cup new |->
            IF p \in new
            THEN LET rc == CHOOSE rc \in saved : TilePath(base, rc[1], rc[2]) = p
                 IN  TileOf(im, rows, cols, rc[1], rc[2])
            ELSE files[p]]

NoSplit == [called |-> FALSE, rows |-> 0, cols |-> 0, ret |-> <<>>]

\* one split_image(SrcPath, rows, cols) call on a fresh directory; a missing
\* image gives [] at once
split_image(rows, cols) ==
    /\ ~split.called
    /\ IF SrcPath \in DOMAIN fs
       THEN /\ split' = [called |-> TRUE, rows |-> rows, cols |-> cols,
                         ret |-> SplitReturn(fs[SrcPath], SrcPath, rows, cols)]
            /\ fs' = FilesAfterSplit(fs, fs[SrcPath], SrcPath, rows, cols)
       ELSE /\ split' = [called |-> TRUE, rows |-> rows, cols |-> cols, ret |-> <<>>]
            /\ fs' = fs
    /\ UNCHANGED <<stitch, exit, fix, dir, batch, cli>>

(***************************** stitch_images ********************************)
\* the loops of stitch_images from cell k on, cell k = (k \div cols, k % cols):
\* acc.im is new_im, acc.log the paste calls made so far as <<idx, x, y>>
RECURSIVE PasteCellsSwapped(_, _, _, _, _, _, _)
PasteCellsSwapped(acc, images, cols, tile_w, tile_h, k, total) ==
    IF k >= total THEN acc
    ELSE PasteCellsSwapped(
            IF k < Len(images)
            THEN [im  |-> Paste(acc.im, images[k + 1],
                                (k \div cols) * tile_w, (k % cols) * tile_h),
                  log |-> Append(acc.log,
                                 <<k, (k \div cols) * tile_w, (k % cols) * tile_h>>)]
            ELSE acc,
            images, cols, tile_w, tile_h, k + 1, total)

RECURSIVE PasteCells(_, _, _, _, _, _, _)
PasteCells(acc, images, cols, tile_w, tile_h, k, total) ==
    IF k >= total THEN acc
    ELSE PasteCells(
            IF k < Len(images)
            THEN [im  |-> Paste(acc.im, images[k + 1],
                                (k % cols) * tile_w, (k \div cols) * tile_h),
                  log |-> Append(acc.log,
                                 <<k, (k % cols) * tile_w, (k \div cols) * tile_h>>)]
            ELSE acc,
            images, cols, tile_w, tile_h, k + 1, total)

NoStitch ==
    [called |-> FALSE, via |-> "none", tiles |-> <<>>, rows |-> 0, cols |-> 0,
     built |-> FALSE, canvas |-> NewRGB(0, 0), pastes |-> <<>>, ret |-> None]

\* the outcome of stitch_images(tiles, OutPath, rows, cols) on the files `files`
StitchOutcome(files, via, tiles, rows, cols) ==
    LET opened == \A i \in 1 .. Len(tiles) : tiles[i] \in DOMAIN files
        images == [i \in 1 .. Len(tiles) |-> files[tiles[i]]]
        failed == [NoStitch EXCEPT !.called = TRUE, !.via = via, !.tiles = tiles,
                                   !.rows = rows, !.cols = cols]
    IN  IF ~opened \/ Len(tiles) = 0
        THEN failed
        ELSE LET tile_w  == images[1].w
                 tile_h  == images[1].h
                 total_w == tile_w * cols
                 total_h == tile_h * rows
                 done    == PasteCells([im |-> NewRGB(total_w, total_h), log |-> <<>>],
                                       images, cols, tile_w, tile_h, 0, rows * cols)
             IN  [failed EXCEPT
                    !.built = TRUE, !.canvas = done.im, !.pastes = done.log,
                    !.ret = IF SaveFails(done.im) THEN None ELSE OutPath]

FilesAfterStitch(files, outcome) ==
    IF outcome.ret = None THEN files
    ELSE [p \in DOMAIN files \cup {OutPath} |->
            IF p = OutPath THEN outcome.canvas ELSE files[p]]

\* stitch_images called once on the first n paths split_image returned
stitch_images(n, rows, cols) ==
    /\ split.called
    /\ ~stitch.called
    /\ n <= Len(split.ret)
    /\ LET outcome == StitchOutcome(fs, "call", SubSeq(split.ret, 1, n), rows, cols)
       IN  /\ stitch' = outcome
           /\ fs' = FilesAfterStitch(fs, outcome)
    /\ UNCHANGED <<split, exit, fix, dir, batch, cli>>

\* the square root rounded up instead of truncated
GridSideUp(count) ==
    CHOOSE s \in 0 .. count : count <= s * s /\ (s = 0 \/ (s - 1) * (s - 1) < count)

\* int(count ** 0.5)
GridSide(count) == CHOOSE s \in 0 .. count : s * s <= count /\ count < (s + 1) * (s + 1)

\* `stitch out.png tile0 tile1 ...` of map_tiler.py / map_enhancer.py
main_stitch(n) ==
    /\ split.called
    /\ ~stitch.called
    /\ n <= Len(split.ret)
    /\ LET outcome == StitchOutcome(fs, "main", SubSeq(split.ret, 1, n),
                                    GridSide(n), GridSide(n))
       IN  /\ stitch' = outcome
           /\ fs' = FilesAfterStitch(fs, outcome)
    /\ exit' = "0"
    /\ UNCHANGED <<split, fix, dir, batch, cli>>

Modes == {"RGB", "RGBA"}

(***************************** fix_antarctica_color_mismatch ****************)
RegionPercent == 85     \* int(height * 0.85)
EpsInv == 1000000       \* 1 / 1e-6
MaxByte == 255          \* np.clip(..., 0, 255)

\* Image.open(image_path).convert('RGB'): an alpha channel is dropped
ConvertRGB(im) ==
    [mode |-> "RGB", w |-> im.w, h |-> im.h,
     px |-> [p \in Coords(im.w, im.h) |-> SubSeq(im.px[p], 1, 3)]]

\* antarctica_start_row
StartRow(h) == (h * RegionPercent) \div 100

\* a slice that takes every column of the bottom rows
InRightWholeRow(w, h, p) == p[2] >= StartRow(h)

\* img_array[antarctica_start_row:, width//2:]
InRight(w, h, p) == p[2] >= StartRow(h) /\ p[1] >= w \div 2

\* img_array[antarctica_start_row:, :width//2]
InLeft(w, h, p) == p[2] >= StartRow(h) /\ p[1] < w \div 2

RightRegion(w, h) == {p \in Coords(w, h) : InRight(w, h, p)}

LeftRegion(w, h) == {p \in Coords(w, h) : InLeft(w, h, p)}

\* the sum np.mean takes over a region, for one channel
RECURSIVE ChannelSum(_, _, _)
ChannelSum(px, region, ch) ==
    IF region = {} THEN 0
    ELSE LET p == CHOOSE q \in region : TRUE
         IN  px[p][ch] + ChannelSum(px, region \ {p}, ch)

\* k <= v * (sumL/nL) / (sumR/nR + 1e-6), i.e.
\* k * nL * (sumR * 10^6 + nR) <= v * sumL * nR * 10^6, with the left side split
\* into its multiple of 10^6 and the rest so that no product leaves 32 bits
RatioLeq(k, v, sumL, nL, sumR, nR) ==
    LET hi == k * nL * sumR + (k * nL * nR) \div EpsInv
        lo == (k * nL * nR) % EpsInv
        c  == v * sumL * nR
    IN  hi < c \/ (hi = c /\ lo = 0)

\* k < v * (sumL/nL) / (sumR/nR + 1e-6)
RatioLess(k, v, sumL, nL, sumR, nR) ==
    k * nL * sumR + (k * nL * nR) \div EpsInv < v * sumL * nR

\* the scaled value rounded up instead of cut
ClipCeil(v, sumL, nL, sumR, nR) ==
    CHOOSE k \in 0 .. MaxByte :
        /\ (k = MaxByte \/ ~RatioLess(k, v, sumL, nL, sumR, nR))
        /\ (k = 0 \/ RatioLess(k - 1, v, sumL, nL, sumR, nR))

\* np.clip(v * color_ratio, 0, 255) stored into the uint8 array: the fraction is cut
ClipTrunc(v, sumL, nL, sumR, nR) ==
    CHOOSE k \in 0 .. MaxByte :
        /\ RatioLeq(k, v, sumL, nL, sumR, nR)
        /\ (k = MaxByte \/ ~RatioLeq(k + 1, v, sumL, nL, sumR, nR))

\* the values a NaN may become when it is stored into the uint8 array
NaNCasts == {0, MaxByte}

\* the corrected array; with an empty left region the mean and the ratio are NaN
\* and every right value is what the cast of NaN gives
CorrectedImage(im, nan) ==
    LET rgb   == ConvertRGB(im)
        left  == LeftRegion(rgb.w, rgb.h)
        right == RightRegion(rgb.w, rgb.h)
        nL    == Cardinality(left)
        nR    == Cardinality(right)
        sumL  == [ch \in 1 .. 3 |-> ChannelSum(rgb.px, left, ch)]
        sumR  == [ch \in 1 .. 3 |-> ChannelSum(rgb.px, right, ch)]
    IN  [rgb EXCEPT !.px =
            [p \in Coords(rgb.w, rgb.h) |->
                IF InRight(rgb.w, rgb.h, p)
                THEN [ch \in 1 .. 3 |->
                        IF nL = 0 THEN nan
                        ELSE ClipTrunc(rgb.px[p][ch], sumL[ch], nL, sumR[ch], nR)]
                ELSE rgb.px[p]]]

NoFix == [called |-> FALSE, ret |-> FALSE]

\* fix_antarctica_color_mismatch(SrcPath, OutPath); a missing image gives False
fix_antarctica_color_mismatch(nan) ==
    /\ ~fix.called
    /\ IF SrcPath \in DOMAIN fs
       THEN /\ fs' = [p \in DOMAIN fs \cup {OutPath} |->
                        IF p = OutPath THEN CorrectedImage(fs[SrcPath], nan) ELSE fs[p]]
            /\ fix' = [called |-> TRUE, ret |-> TRUE]
       ELSE /\ fs' = fs
            /\ fix' = [called |-> TRUE, ret |-> FALSE]
    /\ UNCHANGED <<split, stitch, exit, dir, batch, cli>>

\* the colours an input of the corrector is painted with, two at a time
ColourPairs ==
    { << <<200, 10, 255>>, <<100, 255, 3>> >>,
      << <<0, 0, 0>>, <<255, 128, 1>> >> }

AlphaOf(mode) == IF mode = "RGBA" THEN <<128>> ELSE <<>>

\* the input painted with the colours of `pair` as `pick` says, pixel by pixel
FixImage(mode, w, h, pair, pick) ==
    [mode |-> mode, w |-> w, h |-> h,
     px |-> [p \in Coords(w, h) |-> pair[pick[p]] \o AlphaOf(mode)]]

(***************************** batch loops **********************************)
TileStates == {"absent", "ok", "corrupt"}

NoDir == [tiles |-> [rc \in {} |-> "absent"], unwritable |-> {}]

NoBatch ==
    [called |-> FALSE, fn |-> "none", rows |-> 0, cols |-> 0,
     visited |-> <<>>, ret |-> <<>>, raised |-> FALSE, written |-> {}]

\* f"{prefix}_tile_{r}_{c}_enhanced.png" in directory `where`
EnhancedPath(where, r, c) == <<where, "tile_enhanced", r, c>>

\* enhance_map_resolution on a tile file: an image, or None when the file is
\* missing or cannot be decoded
enhance_map_resolution(state) == IF state = "ok" THEN "image" ELSE "None"

\* the loops of batch_enhance_tiles from cell k on; enhanced_img.save is outside
\* any try, so an unwritable output ends the loops with the exception
RECURSIVE EnhanceLoop(_, _, _, _, _, _)
EnhanceLoop(d, where, cols, k, total, acc) ==
    IF k >= total \/ acc.raised THEN acc
    ELSE LET rc   == <<k \div cols, k % cols>>
             seen == [acc EXCEPT !.visited = Append(@, rc)]
             path == EnhancedPath(where, rc[1], rc[2])
             next ==
                 IF d.tiles[rc] = "absent" THEN seen
                 ELSE IF enhance_map_resolution(d.tiles[rc]) = "None" THEN seen
                 ELSE IF rc \in d.unwritable THEN [seen EXCEPT !.raised = TRUE]
                 ELSE [seen EXCEPT !.ret = Append(@, path),
                                   !.written = @ \cup {path}]
         IN  EnhanceLoop(d, where, cols, k + 1, total, next)

\* the loop of enhance_tiles_resolution over tile_paths from position k on
RECURSIVE EnhancePathsLoop(_, _, _, _)
EnhancePathsLoop(d, tile_paths, k, acc) ==
    IF k > Len(tile_paths) \/ acc.raised THEN acc
    ELSE LET rc   == <<tile_paths[k][3], tile_paths[k][4]>>
             seen == [acc EXCEPT !.visited = Append(@, rc)]
             path == EnhancedPath(tile_paths[k][1], rc[1], rc[2])
             next ==
                 IF enhance_map_resolution(d.tiles[rc]) = "None" THEN seen
                 ELSE IF rc \in d.unwritable THEN [seen EXCEPT !.raised = TRUE]
                 ELSE [seen EXCEPT !.ret = Append(@, path),
                                   !.written = @ \cup {path}]
         IN  EnhancePathsLoop(d, tile_paths, k + 1, next)

\* batch_enhance_tiles("map", "out", "map", rows, cols)
batch_enhance_tiles(rows, cols) ==
    /\ ~batch.called
    /\ batch' = EnhanceLoop(dir, "out", cols, 0, rows * cols,
                    [NoBatch EXCEPT !.called = TRUE, !.fn = "batch_enhance_tiles",
                                    !.rows = rows, !.cols = cols])
    /\ UNCHANGED <<fs, split, stitch, exit, fix, dir, cli>>

\* enhance_tiles_resolution on the row-major tile paths of a rows x cols split
enhance_tiles_resolution(rows, cols) ==
    /\ ~batch.called
    /\ batch' = EnhancePathsLoop(dir, RowMajorPaths(SrcPath, rows, cols), 1,
                    [NoBatch EXCEPT !.called = TRUE, !.fn = "enhance_tiles_resolution",
                                    !.rows = rows, !.cols = cols])
    /\ UNCHANGED <<fs, split, stitch, exit, fix, dir, cli>>

BatchCells == Cells(MaxBatchRows, MaxBatchCols)

\* at most one cell
AtMostOne == {{}} \cup {{rc} : rc \in BatchCells}

\* a tile directory: the tiles of `absent` missing, those of `corrupt` undecodable,
\* the enhanced outputs of `unwritable` not writable
BatchDir(absent, corrupt, unwritable) ==
    [tiles |-> [rc \in BatchCells |->
                  IF rc \in absent THEN "absent"
                  ELSE IF rc \in corrupt THEN "corrupt" ELSE "ok"],
     unwritable |-> unwritable]

(***************************** command lines ********************************)
NoCli == [called |-> FALSE, script |-> "none", argv |-> <<>>, outcome |-> "none"]

\* sys.argv[i] exists
HasArg(argv, i) == i < Len(argv)

\* sys.argv[i]
Arg(argv, i) == argv[i + 1]

\* int(token) succeeds
IsInt(token) == token = "2"

\* the split branch of map_tiler.py and map_enhancer.py
MainSplit(argv) ==
    IF ~HasArg(argv, 2) THEN "IndexError"
    ELSE IF HasArg(argv, 3) /\ ~IsInt(Arg(argv, 3)) THEN "ValueError"
    ELSE IF HasArg(argv, 4) /\ ~IsInt(Arg(argv, 4)) THEN "ValueError"
    ELSE "exit_0"

\* the stitch branch of map_tiler.py and map_enhancer.py
MainStitch(argv) == IF ~HasArg(argv, 2) THEN "IndexError" ELSE "exit_0"

\* __main__ of map_tiler.py
MainTiler(argv, writable) ==
    IF Len(argv) < 2 THEN "usage_exit_1"
    ELSE IF Arg(argv, 1) = "split" THEN MainSplit(argv)
    ELSE IF Arg(argv, 1) = "stitch" THEN MainStitch(argv)
    ELSE "exit_0"

\* __main__ of map_enhancer.py; enhanced_img.save(output_path) is not in a try
MainEnhancer(argv, writable) ==
    IF Len(argv) < 2 THEN "usage_exit_1"
    ELSE IF Arg(argv, 1) = "enhance_resolution" THEN
        IF ~HasArg(argv, 2) \/ ~HasArg(argv, 3) THEN "IndexError"
        ELSE IF HasArg(argv, 4) /\ ~IsInt(Arg(argv, 4)) THEN "ValueError"
        ELSE IF ~writable THEN "OSError"
        ELSE "exit_0"
    ELSE IF Arg(argv, 1) = "fix_antarctica" THEN
        IF ~HasArg(argv, 2) \/ ~HasArg(argv, 3) THEN "IndexError" ELSE "exit_0"
    ELSE IF Arg(argv, 1) = "split" THEN MainSplit(argv)
    ELSE IF Arg(argv, 1) = "stitch" THEN MainStitch(argv)
    ELSE "exit_0"

\* __main__ of batch_process.py
MainBatch(argv, writable) ==
    IF Len(argv) < 5 THEN "usage_exit_1"
    ELSE IF Arg(argv, 1) = "enhance_tiles" THEN
        IF ~HasArg(argv, 5) THEN "IndexError"
        ELSE IF ~IsInt(Arg(argv, 5)) THEN "ValueError"
        ELSE IF ~HasArg(argv, 6) THEN "IndexError"
        ELSE IF ~IsInt(Arg(argv, 6)) THEN "ValueError"
        ELSE IF HasArg(argv, 7) /\ ~IsInt(Arg(argv, 7)) THEN "ValueError"
        ELSE IF ~writable THEN "OSError"
        ELSE "exit_0"
    ELSE IF Arg(argv, 1) = "stitch_tiles" THEN
        IF ~IsInt(argv[Len(argv) - 1]) \/ ~IsInt(argv[Len(argv)]) THEN "ValueError"
        ELSE "exit_0"
    ELSE "exit_0"

MainOutcome(script, argv, writable) ==
    IF script = "map_tiler.py" THEN MainTiler(argv, writable)
    ELSE IF script = "map_enhancer.py" THEN MainEnhancer(argv, writable)
    ELSE MainBatch(argv, writable)

\* one run of `python script argv[1:]`
main(script, argv, writable) ==
    /\ ~cli.called
    /\ cli' = [called |-> TRUE, script |-> script, argv |-> argv,
               outcome |-> MainOutcome(script, argv, writable)]
    /\ UNCHANGED <<fs, split, stitch, exit, fix, dir, batch>>

Scripts == {"map_tiler.py", "map_enhancer.py", "batch_process.py"}

Commands ==
    {"split", "stitch", "enhance_resolution", "fix_antarctica", "enhance_tiles",
     "stitch_tiles"}

\* the arguments after the subcommand: paths ("p") and integers ("2")
ArgLists == UNION {[1 .. n -> {"p", "2"}] : n \in 0 .. MaxArgs}

(***************************** specification ********************************)

\* a directory without files
NoFiles == [p \in {} |-> NewRGB(0, 0)]

Init ==
    /\ \/ \E mode \in Modes, w \in 1 .. MaxW, h \in 1 .. MaxH, pat \in 0 .. MaxPattern :
             fs = [p \in {SrcPath} |-> SourceImage(mode, w, h, pat)]
       \/ fs = NoFiles
    /\ split = NoSplit
    /\ stitch = NoStitch
    /\ exit = "none"
    /\ fix = NoFix
    /\ dir = NoDir
    /\ batch = NoBatch
    /\ cli = NoCli

Next ==
    \/ \E rows \in 1 .. MaxGrid, cols \in 1 .. MaxGrid : split_image(rows, cols)
    \/ \E n \in 0 .. MaxGrid * MaxGrid, rows \in 0 .. MaxGrid, cols \in 0 .. MaxGrid :
          stitch_images(n, rows, cols)
    \/ \E n \in 0 .. MaxGrid * MaxGrid : main_stitch(n)

Spec == Init /\ [][Next]_vars

\* the colour corrector on its own inputs
InitFix ==
    /\ \/ \E mode \in Modes, w \in 1 .. MaxFixW, h \in 1 .. MaxFixH, pair \in ColourPairs :
             \E pick \in [Coords(w, h) -> {1, 2}] :
                 fs = [p \in {SrcPath} |-> FixImage(mode, w, h, pair, pick)]
       \/ fs = NoFiles
    /\ split = NoSplit
    /\ stitch = NoStitch
    /\ exit = "none"
    /\ fix = NoFix
    /\ dir = NoDir
    /\ batch = NoBatch
    /\ cli = NoCli

NextFix == \E nan \in NaNCasts : fix_antarctica_color_mismatch(nan)

SpecFix == InitFix /\ [][NextFix]_vars

\* the batch loops on a tile directory
InitBatch ==
    /\ fs = NoFiles
    /\ split = NoSplit
    /\ stitch = NoStitch
    /\ exit = "none"
    /\ fix = NoFix
    /\ \E absent \in SUBSET BatchCells, corrupt \in AtMostOne, unwritable \in AtMostOne :
          dir = BatchDir(absent, corrupt, unwritable)
    /\ batch = NoBatch
    /\ cli = NoCli

NextBatch ==
    \/ \E rows \in 1 .. MaxBatchRows, cols \in 1 .. MaxBatchCols :
          batch_enhance_tiles(rows, cols)
    \/ \E rows \in 1 .. MaxBatchRows, cols \in 1 .. MaxBatchCols :
          enhance_tiles_resolution(rows, cols)

SpecBatch == InitBatch /\ [][NextBatch]_vars

\* the command lines of the three scripts
InitMain ==
    /\ fs = NoFiles
    /\ split = NoSplit
    /\ stitch = NoStitch
    /\ exit = "none"
    /\ fix = NoFix
    /\ dir = NoDir
    /\ batch = NoBatch
    /\ cli = NoCli

NextMain ==
    \/ \E script \in Scripts, writable \in BOOLEAN : main(script, <<script>>, writable)
    \/ \E script \in Scripts, command \in Commands, args \in ArgLists, writable \in BOOLEAN :
          main(script, <<script, command>> \o args, writable)

SpecMain == InitMain /\ [][NextMain]_vars

(***************************** split / stitch properties *******************)
Src == fs[SrcPath]

\* the image given to the operation exists
HasSrc == SrcPath \in DOMAIN fs

InBox(p, b) == b[1] <= p[1] /\ p[1] < b[3] /\ b[2] <= p[2] /\ p[2] < b[4]

SplitBox(r, c) == CropBox(Src.w, Src.h, split.rows, split.cols, r, c)

\* the boxes of the last split partition [0,W) x [0,H) and absorb the remainders
SplitGeometry ==
    LET rows == split.rows
        cols == split.cols
        tw   == Src.w \div cols
        th   == Src.h \div rows
    IN  /\ \A p \in Coords(Src.w, Src.h) :
              Cardinality({rc \in Cells(rows, cols) : InBox(p, SplitBox(rc[1], rc[2]))}) = 1
        /\ \A rc \in Cells(rows, cols) :
              LET b == SplitBox(rc[1], rc[2])
              IN  /\ 0 <= b[1] /\ b[1] <= b[3] /\ b[3] <= Src.w
                  /\ 0 <= b[2] /\ b[2] <= b[4] /\ b[4] <= Src.h
                  /\ b[3] - b[1] = IF rc[2] = cols - 1 THEN tw + (Src.w % cols) ELSE tw
                  /\ b[4] - b[2] = IF rc[1] = rows - 1 THEN th + (Src.h % rows) ELSE th

\* the returned list: rows*cols paths {base}_tile_{r}_{c}.png in row-major order,
\* each file holding the pixels of its box
SplitPathsComplete ==
    /\ Len(split.ret) = split.rows * split.cols
    /\ \A rc \in Cells(split.rows, split.cols) :
          LET path == <<"map", "tile", rc[1], rc[2]>>
              b    == SplitBox(rc[1], rc[2])
          IN  /\ split.ret[rc[1] * split.cols + rc[2] + 1] = path
              /\ path \in DOMAIN fs
              /\ fs[path].w = b[3] - b[1]
              /\ fs[path].h = b[4] - b[2]
              /\ \A q \in Coords(fs[path].w, fs[path].h) :
                    fs[path].px[q] = Src.px[<<q[1] + b[1], q[2] + b[2]>>]

\* C1 as stated: after every split the boxes partition the image with the stated
\* sizes and the returned list has rows*cols row-major entries.
C1_Original == (split.called /\ HasSrc) => (SplitGeometry /\ SplitPathsComplete)

\* C1 amended: the boxes always partition the image with the stated sizes; the
\* returned list has its rows*cols row-major entries exactly when cols <= W and
\* rows <= H, and is empty otherwise (an empty tile cannot be saved).
C1_SplitPartition ==
    (split.called /\ HasSrc) =>
        /\ SplitGeometry
        /\ IF split.cols <= Src.w /\ split.rows <= Src.h
           THEN SplitPathsComplete
           ELSE split.ret = <<>>

C1_Witness ==
    /\ split.called /\ HasSrc /\ split.rows = 2 /\ split.cols = 2
    /\ Src.w = 3 /\ Src.h = 3 /\ Len(split.ret) = 4

\* a stitch_images call on everything the split returned, with the split's grid
RoundTrip ==
    /\ HasSrc
    /\ split.called /\ stitch.called /\ stitch.via = "call"
    /\ stitch.tiles = split.ret
    /\ stitch.rows = split.rows /\ stitch.cols = split.cols

ExactGrid == Src.w % split.cols = 0 /\ Src.h % split.rows = 0

\* C2 as stated: with exact division the round trip gives a W x H image whose every
\* pixel equals the original pixel, channel for channel.
C2_Original ==
    (RoundTrip /\ ExactGrid) =>
        /\ stitch.ret = OutPath /\ OutPath \in DOMAIN fs
        /\ fs[OutPath].w = Src.w /\ fs[OutPath].h = Src.h
        /\ \A p \in Coords(Src.w, Src.h) : fs[OutPath].px[p] = Src.px[p]

\* C2 amended: with exact division the round trip gives a W x H RGB image whose
\* every pixel has the R, G and B of the original pixel; an alpha channel is dropped.
C2_RoundTripRGB ==
    (RoundTrip /\ ExactGrid) =>
        /\ stitch.ret = OutPath /\ OutPath \in DOMAIN fs
        /\ fs[OutPath].w = Src.w /\ fs[OutPath].h = Src.h
        /\ \A p \in Coords(Src.w, Src.h) :
              /\ Len(fs[OutPath].px[p]) = 3
              /\ \A ch \in 1 .. 3 : fs[OutPath].px[p][ch] = Src.px[p][ch]

C2_Witness ==
    /\ RoundTrip /\ ExactGrid
    /\ split.rows = 2 /\ split.cols = 2 /\ Src.w = 2 /\ Src.h = 2
    /\ Src.mode = "RGBA" /\ OutPath \in DOMAIN fs

(***************************** stitch properties ****************************)
StitchN == Len(stitch.tiles)

FirstTile == fs[stitch.tiles[1]]

\* the cells of the stitch grid that have a tile / have none
TiledCells == {rc \in Cells(stitch.rows, stitch.cols) :
                 CellIndex(stitch.cols, rc[1], rc[2]) < StitchN}

BlankCells == Cells(stitch.rows, stitch.cols) \ TiledCells

\* the canvas is cols*tile_w x rows*tile_h and exactly the cells with a tile were
\* pasted, tiles[r*cols + c] at (c*tile_w, r*tile_h), in row-major order
CanvasAndPastes ==
    LET tw == FirstTile.w
        th == FirstTile.h
    IN  /\ stitch.built
        /\ stitch.canvas.w = stitch.cols * tw
        /\ stitch.canvas.h = stitch.rows * th
        /\ {stitch.pastes[i] : i \in 1 .. Len(stitch.pastes)} =
              {<<rc[1] * stitch.cols + rc[2], rc[2] * tw, rc[1] * th>> : rc \in TiledCells}
        /\ Len(stitch.pastes) = Cardinality(TiledCells)
        /\ \A i \in 1 .. Len(stitch.pastes) - 1 :
              stitch.pastes[i][1] < stitch.pastes[i + 1][1]
        /\ \A i \in 1 .. Len(stitch.pastes) : stitch.pastes[i][1] < stitch.rows * stitch.cols

\* every pixel of a cell without a tile is the canvas background
BlankCellsBlack ==
    \A rc \in BlankCells :
        \A p \in Coords(stitch.canvas.w, stitch.canvas.h) :
            InBox(p, <<rc[2] * FirstTile.w, rc[1] * FirstTile.h,
                       (rc[2] + 1) * FirstTile.w, (rc[1] + 1) * FirstTile.h>>)
                => stitch.canvas.px[p] = <<0, 0, 0>>

\* every cell with a tile shows that tile's R, G, B
TiledCellsShowTile ==
    \A rc \in TiledCells :
        LET tile == fs[stitch.tiles[rc[1] * stitch.cols + rc[2] + 1]]
        IN  \A q \in Coords(tile.w, tile.h) :
               stitch.canvas.px[<<rc[2] * FirstTile.w + q[1], rc[1] * FirstTile.h + q[2]>>]
                   = SubSeq(tile.px[q], 1, 3)

NoTileLarger ==
    \A i \in 1 .. StitchN :
        fs[stitch.tiles[i]].w <= FirstTile.w /\ fs[stitch.tiles[i]].h <= FirstTile.h

\* C3 as stated: for every n (n = 0 included) the canvas is built from the first
\* tile's size, exactly the cells with idx < n are pasted, the other cells stay
\* blank and, when n < rows*cols, the output path is still returned.
C3_Original ==
    stitch.called =>
        /\ StitchN < stitch.rows * stitch.cols => stitch.ret = OutPath
        /\ StitchN >= 1 => (CanvasAndPastes /\ BlankCellsBlack)

\* C3 amended: for n >= 1 the canvas is built from the first tile's size and
\* exactly the cells with idx < n are pasted (tiles with idx >= rows*cols never);
\* when n < rows*cols the output path is still returned and the cells without a
\* tile stay blank provided no tile is larger than the first; for n = 0 there is
\* no first tile, nothing is built or written and None is returned.
C3_StitchLayout ==
    stitch.called =>
        IF StitchN >= 1
        THEN /\ CanvasAndPastes
             /\ StitchN < stitch.rows * stitch.cols => stitch.ret = OutPath
             /\ stitch.ret = OutPath => fs[OutPath] = stitch.canvas
             /\ NoTileLarger => (BlankCellsBlack /\ TiledCellsShowTile)
        ELSE ~stitch.built /\ stitch.ret = None /\ OutPath \notin DOMAIN fs

C3_Witness ==
    /\ stitch.called /\ StitchN = 2 /\ stitch.rows = 2 /\ stitch.cols = 2
    /\ stitch.ret = OutPath /\ BlankCells # {}

\* C9 as stated: whenever the grid does not divide the image, stitching the split's
\* output with the same grid builds a canvas of cols*floor(W/cols) x
\* rows*floor(H/rows), not W x H, pastes every tile at the offset given by the
\* first tile's size, clips the remainder pixels and does not reproduce the image.
ClippedStitch ==
    LET cw == split.cols * (Src.w \div split.cols)
        ch == split.rows * (Src.h \div split.rows)
    IN  /\ stitch.built
        /\ stitch.canvas.w = cw /\ stitch.canvas.h = ch
        /\ cw < Src.w \/ ch < Src.h
        /\ \A i \in 1 .. Len(stitch.pastes) :
              LET k == stitch.pastes[i][1]
              IN  stitch.pastes[i] = <<k, (k % split.cols) * FirstTile.w,
                                          (k \div split.cols) * FirstTile.h>>
        /\ Len(stitch.pastes) = split.rows * split.cols
        /\ \A p \in Coords(cw, ch) : stitch.canvas.px[p] = SubSeq(Src.px[p], 1, 3)
        /\ OutPath \in DOMAIN fs => fs[OutPath] # Src

C9_Original == (RoundTrip /\ ~ExactGrid) => ClippedStitch

\* C9 amended: the same, for grids with cols <= W and rows <= H; with a larger
\* grid split_image returns no tiles and stitch_images fails without a canvas.
C9_RemainderClipped ==
    (RoundTrip /\ ~ExactGrid) =>
        IF split.cols <= Src.w /\ split.rows <= Src.h
        THEN ClippedStitch
        ELSE split.ret = <<>> /\ ~stitch.built /\ stitch.ret = None

C9_Witness ==
    /\ RoundTrip /\ Src.w = 3 /\ Src.h = 2 /\ split.rows = 1 /\ split.cols = 2
    /\ stitch.ret = OutPath /\ fs[OutPath].w = 2

\* C10: the stitch subcommand uses a square grid of side s = floor(sqrt(n)), places
\* only the first s*s tiles, never restores a grid with rows # cols, and for n = 0
\* fails to stitch (nothing written) while the process still exits 0.
C10_SquareGridStitch ==
    (stitch.called /\ stitch.via = "main") =>
        LET s == stitch.rows
        IN  /\ stitch.cols = s
            /\ s * s <= StitchN /\ StitchN < (s + 1) * (s + 1)
            /\ {stitch.pastes[i][1] : i \in 1 .. Len(stitch.pastes)} = 0 .. s * s - 1
            /\ split.rows # split.cols => <<stitch.rows, stitch.cols>> # <<split.rows, split.cols>>
            /\ StitchN = 0 => (stitch.ret = None /\ OutPath \notin DOMAIN fs)
            /\ exit = "0"

C10_Witness ==
    /\ stitch.called /\ stitch.via = "main" /\ StitchN = 3 /\ HasSrc
    /\ split.rows = 1 /\ split.cols = 3 /\ Len(stitch.pastes) = 1 /\ exit = "0"

(***************************** colour corrector properties ******************)
FixOut == fs[OutPath]

\* row >= floor(0.85 * height)
InBottom(p) == 85 * Src.h < 100 * (p[2] + 1)

PLeft == {p \in Coords(Src.w, Src.h) : InBottom(p) /\ 2 * p[1] + 1 < Src.w}

PRight == {p \in Coords(Src.w, Src.h) : InBottom(p) /\ 2 * p[1] + 1 >= Src.w}

\* channel sums of the regions: the input's left and right, the output's right
InSumLeft(ch) == ChannelSum(Src.px, PLeft, ch)

InSumRight(ch) == ChannelSum(Src.px, PRight, ch)

OutSumRight(ch) == ChannelSum(FixOut.px, PRight, ch)

RightMeansNonZero == \A ch \in 1 .. 3 : InSumRight(ch) # 0

\* the output value is the input value times leftMean / (rightMean + 1e-6),
\* clamped to [0, 255] and cut to an integer
ScaledClampedTruncated(p, ch) ==
    LET k  == FixOut.px[p][ch]
        v  == Src.px[p][ch]
        nL == Cardinality(PLeft)
        nR == Cardinality(PRight)
    IN  /\ k \in 0 .. 255
        /\ RatioLeq(k, v, InSumLeft(ch), nL, InSumRight(ch), nR)
        /\ k = 255 \/ ~RatioLeq(k + 1, v, InSumLeft(ch), nL, InSumRight(ch), nR)

\* no scaled value of the channel exceeds 255
Unclamped(ch) ==
    \A p \in PRight :
        ~RatioLess(255, Src.px[p][ch], InSumLeft(ch), Cardinality(PLeft),
                   InSumRight(ch), Cardinality(PRight))

\* leftMean - correctedRightMean, times nL * nR
MeanGap(ch) == InSumLeft(ch) * Cardinality(PRight) - OutSumRight(ch) * Cardinality(PLeft)

\* C7 as stated, on the images that have a left region: whenever every right mean
\* is non-zero, the corrected right mean equals the left mean within +/-1 in every
\* channel and every right value is the scaled, clamped, truncated input value.
C7_Original ==
    (fix.called /\ HasSrc /\ RightMeansNonZero /\ PLeft # {}) =>
        \A ch \in 1 .. 3 :
            /\ \A p \in PRight : ScaledClampedTruncated(p, ch)
            /\ MeanGap(ch) <= Cardinality(PLeft) * Cardinality(PRight)
            /\ -MeanGap(ch) <= Cardinality(PLeft) * Cardinality(PRight)

\* C7 amended: for width >= 2 (a non-empty left region) and non-zero right means,
\* every right value is the scaled, clamped, truncated input value, and in every
\* channel where no scaled value exceeds 255 the corrected right mean is at most
\* the left mean and less than 1.001 below it.
C7_MeanMatchUnclamped ==
    (fix.called /\ HasSrc /\ RightMeansNonZero /\ Src.w >= 2) =>
        \A ch \in 1 .. 3 :
            /\ PLeft # {}
            /\ \A p \in PRight : ScaledClampedTruncated(p, ch)
            /\ Unclamped(ch) =>
                  /\ 0 <= MeanGap(ch)
                  /\ 1000 * MeanGap(ch) < 1001 * Cardinality(PLeft) * Cardinality(PRight)

C7_Witness ==
    /\ fix.called /\ HasSrc /\ RightMeansNonZero /\ Src.w = 3
    /\ \A ch \in 1 .. 3 : Unclamped(ch) /\ MeanGap(ch) > 0
    /\ \E p \in PRight : FixOut.px[p] # SubSeq(Src.px[p], 1, 3)

\* C8: the output has the input's size and every pixel of the left half or above
\* floor(0.85 * height) has the R, G, B of the RGB-converted input.
C8_OnlyRightRegionChanges ==
    (fix.called /\ HasSrc) =>
        /\ FixOut.w = Src.w /\ FixOut.h = Src.h /\ fix.ret
        /\ \A p \in Coords(Src.w, Src.h) :
              (~InBottom(p) \/ 2 * p[1] + 1 < Src.w) =>
                  FixOut.px[p] = SubSeq(Src.px[p], 1, 3)

C8_Witness ==
    /\ fix.called /\ HasSrc /\ Src.w = 3 /\ Src.h = 2 /\ Src.mode = "RGBA"
    /\ \E p \in PRight : FixOut.px[p] # SubSeq(Src.px[p], 1, 3)

(***************************** batch properties *****************************)
GridCells == Cells(batch.rows, batch.cols)

\* the grid's cells in row-major order
AllCellsVisited ==
    /\ Len(batch.visited) = batch.rows * batch.cols
    /\ \A rc \in GridCells : batch.visited[rc[1] * batch.cols + rc[2] + 1] = rc

EnhancedCells == {rc \in GridCells : dir.tiles[rc] = "ok"}

\* exactly the enhanced paths of the readable tiles, in row-major order
ReturnsEnhancedPaths ==
    /\ Len(batch.ret) = Cardinality(EnhancedCells)
    /\ {batch.ret[i] : i \in 1 .. Len(batch.ret)} =
          {<<"out", "tile_enhanced", rc[1], rc[2]>> : rc \in EnhancedCells}
    /\ \A i \in 1 .. Len(batch.ret) - 1 :
          batch.ret[i][3] * batch.cols + batch.ret[i][4]
              < batch.ret[i + 1][3] * batch.cols + batch.ret[i + 1][4]

\* C4: for every grid and every set of absent tiles batch_enhance_tiles visits every
\* cell in row-major order, raises nothing and returns exactly the enhanced paths of
\* the tiles that exist and were enhanced, in row-major order.
C4_AbsentTilesSkipped ==
    (batch.called /\ batch.fn = "batch_enhance_tiles") =>
        (~batch.raised /\ AllCellsVisited /\ ReturnsEnhancedPaths)

\* C5: no batch loop lets a failure propagate, and a failure on one tile (a failed
\* write of its enhanced output included) never keeps the remaining tiles from
\* being processed.
C5_FailuresContained ==
    batch.called => (~batch.raised /\ Len(batch.visited) = batch.rows * batch.cols)

(***************************** command line properties **********************)
\* the positional arguments a subcommand cannot run without
Required(script, command) ==
    IF command \in {"enhance_resolution", "fix_antarctica"} THEN 2
    ELSE IF command = "enhance_tiles" THEN 5
    ELSE IF command = "stitch_tiles" THEN 3
    ELSE 1

KnownCommands(script) ==
    IF script = "map_tiler.py" THEN {"split", "stitch"}
    ELSE IF script = "map_enhancer.py"
         THEN {"enhance_resolution", "fix_antarctica", "split", "stitch"}
         ELSE {"enhance_tiles", "stitch_tiles"}

OmitsRequired ==
    /\ cli.called
    /\ Len(cli.argv) >= 2
    /\ cli.argv[2] \in KnownCommands(cli.script)
    /\ Len(cli.argv) - 2 < Required(cli.script, cli.argv[2])

\* C6: every invocation that omits a required positional argument prints the usage
\* message and exits non-zero; none ends in an uncaught exception or in status 0.
C6_UsageOnMissingArgs == OmitsRequired => cli.outcome = "usage_exit_1"
====
